---- MODULE Spec2Model ----
(***************************************************************************)
(* Model of the deal-intelligence core of the SmartAmazon backend:         *)
(*   backend/app/unit_calculator.py    title -> (quantity, unit) -> price  *)
(*   backend/app/scoring.py            the product scores                  *)
(*   backend/app/services/price_history.py   the price history            *)
(*                                                                         *)
(* Representation.  Text is a tuple of one-character strings, so that the  *)
(* regular expressions of PATTERNS are evaluated character by character.   *)
(* Decimal and float values are fixed-point integers:                      *)
(*   prices            in 1/PriceScale dollars                             *)
(*   quantities        in 1/QtyScale units                                 *)
(*   unit prices       in 1/UnitPriceScale dollars (what round(x, 4) keeps)*)
(*   conversion factors in 1/FactorScale                                   *)
(*   scores, before int(), in 1/ScoreScale points                          *)
(* An Optional value is the empty tuple (None) or a one-element tuple.     *)
(***************************************************************************)
EXTENDS Integers, Sequences, FiniteSets, TLC

VARIABLES
    call,           \* the last call of a stateless entry point: [op, args, result]
    history,        \* rows of price_history of the one product, in commit order
    now,            \* datetime.now(), in hours
    pc,             \* per worker: where it is in record_price
    frame,          \* per worker: the arguments and locals of its record_price call
    ret             \* per worker: the row record_price returned (Optional index into history)

vars == <<call, history, now, pc, frame, ret>>

None == <<>>
Some(x) == <<x>>
Val(o) == o[1]

\* the element of a one-element set: The({e(x) : x \in {v}}) is e(v) with v
\* evaluated once
The(S) == CHOOSE x \in S : TRUE

Min(a, b) == IF a <= b THEN a ELSE b
Max(a, b) == IF a >= b THEN a ELSE b
Abs(a) == IF a >= 0 THEN a ELSE -a

PriceScale == 100000
QtyScale == 100000
UnitPriceScale == 10000
FactorScale == 10000

\* n * 10^k / d by long division, one decimal digit at a time, as <<quotient, remainder>>
\* (n >= 0, d > 0); Decimal's division, exact while the quotient has at most 28 digits
RECURSIVE LongDiv(_, _, _)
LongDiv(n, d, k) ==
    IF k = 0 THEN <<n \div d, n % d>>
    ELSE The({<<p[1] * 10 + (p[2] * 10) \div d, (p[2] * 10) % d>> :
              p \in {LongDiv(n, d, k - 1)}})

\* q * f / FactorScale without leaving 32 bits
MulFactor(q, f) == (q \div FactorScale) * f + ((q % FactorScale) * f) \div FactorScale

(***************************************************************************)
(* Characters and the regular-expression primitives used by PATTERNS.      *)
(* A position is the index of the next character; 0 means "no match".      *)
(* Every quantifier of PATTERNS is followed by a character it cannot       *)
(* itself consume, so greedy matching without backtracking is exact.       *)
(***************************************************************************)
Digit == {"0", "1", "2", "3", "4", "5", "6", "7", "8", "9"}
LOWER == <<"a", "b", "c", "d", "e", "f", "g", "h", "i", "j", "k", "l", "m", "n", "o", "p", "q", "r", "s", "t", "u", "v", "w", "x", "y", "z">>
UPPER == <<"A", "B", "C", "D", "E", "F", "G", "H", "I", "J", "K", "L", "M", "N", "O", "P", "Q", "R", "S", "T", "U", "V", "W", "X", "Y", "Z">>
Letter == {LOWER[i] : i \in 1..26} \cup {UPPER[i] : i \in 1..26}

DigitValue(c) == CHOOSE v \in 0..9 : <<"0", "1", "2", "3", "4", "5", "6", "7", "8", "9">>[v + 1] = c

\* \w
IsWordChar(c) == c \in Letter \cup Digit \cup {"_"}

\* str.lower()
LowerChar(c) == IF \E i \in 1..26 : UPPER[i] = c
                THEN LOWER[CHOOSE i \in 1..26 : UPPER[i] = c] ELSE c
\* lower() leaving capitals as they are
LowerUnchanged(s) == s
\* str.lower() of a text
Lower(s) == [i \in 1..Len(s) |-> LowerChar(s[i])]

\* str.strip()
Strip(s) ==
    LET inked == {i \in 1..Len(s) : s[i] # " "}
    IN  IF inked = {} THEN <<>>
        ELSE SubSeq(s, CHOOSE i \in inked : \A j \in inked : i <= j,
                       CHOOSE i \in inked : \A j \in inked : i >= j)

\* str.isdigit()
IsDigitStr(s) == s # <<>> /\ \A i \in 1..Len(s) : s[i] \in Digit

\* the end of the longest run of characters of class at i (i itself when there is none)
RunEnd(s, i, class) ==
    CHOOSE j \in i..(Len(s) + 1) :
        /\ \A k \in i..(j - 1) : s[k] \in class
        /\ j = Len(s) + 1 \/ s[j] \notin class

\* \d+
DigitsEnd(s, i) == IF i > Len(s) \/ s[i] \notin Digit THEN 0 ELSE RunEnd(s, i, Digit)

\* \d+(?:\.\d+)?
NumberEnd(s, i) ==
    The({IF e = 0 THEN 0
         ELSE IF e <= Len(s) /\ s[e] = "." /\ DigitsEnd(s, e + 1) # 0
              THEN DigitsEnd(s, e + 1)
              ELSE e : e \in {DigitsEnd(s, i)}})

\* \s*
SkipSpaces(s, i) == RunEnd(s, i, {" "})

\* \s*[-]?\s*
SepEnd(s, i) ==
    The({SkipSpaces(s, IF j <= Len(s) /\ s[j] = "-" THEN j + 1 ELSE j) :
         j \in {SkipSpaces(s, i)}})

\* a literal
LitEnd(s, i, lit) ==
    IF i + Len(lit) - 1 <= Len(s) /\ SubSeq(s, i, i + Len(lit) - 1) = lit
    THEN i + Len(lit) ELSE 0

\* \b at position i
WordBoundary(s, i) ==
    (i > 1 /\ IsWordChar(s[i - 1])) # (i <= Len(s) /\ IsWordChar(s[i]))

Lit(t) == [k |-> "lit", t |-> t]
OptDot == [k |-> "\\.?", t |-> <<>>]
Spaces0 == [k |-> "\\s*", t |-> <<>>]
Spaces1 == [k |-> "\\s+", t |-> <<>>]

\* one alternative of a group: its pieces, from piece n on, matched at i
RECURSIVE PiecesEnd(_, _, _, _)
PiecesEnd(s, i, ps, n) ==
    IF n > Len(ps) THEN i
    ELSE LET p == ps[n]
         IN  The({IF j = 0 THEN 0 ELSE PiecesEnd(s, j, ps, n + 1) :
                  j \in {CASE p.k = "lit" -> LitEnd(s, i, p.t)
                           [] p.k = "\\.?" -> IF i <= Len(s) /\ s[i] = "." THEN i + 1 ELSE i
                           [] p.k = "\\s*" -> SkipSpaces(s, i)
                           [] p.k = "\\s+" -> IF i <= Len(s) /\ s[i] = " "
                                              THEN SkipSpaces(s, i) ELSE 0}})

\* (a1|a2|...) followed by \b when wb: the first alternative, from n on, that matches
RECURSIVE AltEnd(_, _, _, _, _)
AltEnd(s, i, alts, n, wb) ==
    IF n > Len(alts) THEN 0
    ELSE The({IF e # 0 /\ (~wb \/ WordBoundary(s, e)) THEN e
              ELSE AltEnd(s, i, alts, n + 1, wb) : e \in {PiecesEnd(s, i, alts[n], 1)}})

(***************************************************************************)
(* unit_calculator.py                                                      *)
(***************************************************************************)
\* conversion factors to ounces, as <<unit, factor>>
WEIGHT_CONVERSIONS == {
    <<<<"o", "z">>, 10000>>, <<<<"o", "u", "n", "c", "e">>, 10000>>, <<<<"o", "u", "n", "c", "e", "s">>, 10000>>,
    <<<<"l", "b">>, 160000>>, <<<<"l", "b", "s">>, 160000>>, <<<<"p", "o", "u", "n", "d">>, 160000>>, <<<<"p", "o", "u", "n", "d", "s">>, 160000>>,
    <<<<"g">>, 353>>, <<<<"g", "r", "a", "m">>, 353>>, <<<<"g", "r", "a", "m", "s">>, 353>>,
    <<<<"k", "g">>, 352740>>, <<<<"k", "i", "l", "o", "g", "r", "a", "m">>, 352740>>, <<<<"k", "i", "l", "o", "g", "r", "a", "m", "s">>, 352740>> }

\* conversion factors to fluid ounces, as <<unit, factor>>
VOLUME_CONVERSIONS == {
    <<<<"f", "l", " ", "o", "z">>, 10000>>, <<<<"f", "l", ".", " ", "o", "z">>, 10000>>,
    <<<<"f", "l", "u", "i", "d", " ", "o", "u", "n", "c", "e">>, 10000>>, <<<<"f", "l", "u", "i", "d", " ", "o", "u", "n", "c", "e", "s">>, 10000>>,
    <<<<"m", "l">>, 338>>, <<<<"m", "i", "l", "l", "i", "l", "i", "t", "e", "r">>, 338>>, <<<<"m", "i", "l", "l", "i", "l", "i", "t", "e", "r", "s">>, 338>>,
    <<<<"l">>, 338140>>, <<<<"l", "i", "t", "e", "r">>, 338140>>, <<<<"l", "i", "t", "e", "r", "s">>, 338140>>,
    <<<<"g", "a", "l">>, 1280000>>, <<<<"g", "a", "l", "l", "o", "n">>, 1280000>>, <<<<"g", "a", "l", "l", "o", "n", "s">>, 1280000>>,
    <<<<"q", "t">>, 320000>>, <<<<"q", "u", "a", "r", "t">>, 320000>>, <<<<"q", "u", "a", "r", "t", "s">>, 320000>>,
    <<<<"p", "t">>, 160000>>, <<<<"p", "i", "n", "t">>, 160000>>, <<<<"p", "i", "n", "t", "s">>, 160000>> }

COUNT_UNITS == {<<"p", "a", "c", "k">>, <<"c", "o", "u", "n", "t">>, <<"c", "t">>, <<"p", "i", "e", "c", "e">>, <<"p", "i", "e", "c", "e", "s">>}

\* `unit in TABLE` and `TABLE[unit]`
InTable(table, unit) == \E e \in table : e[1] = unit
Factor(table, unit) == (CHOOSE e \in table : e[1] = unit)[2]

\* (\d+(?:\.\d+)?)\s*[-]?\s*(a1|a2|...)\b      two groups
QtyUnit(alts) == [shape |-> "qty unit", alts |-> alts]
\* (\d+(?:\.\d+)?)\s*[-]?\s*word\b             one group: the word is not captured
QtyWord(word) == [shape |-> "qty word", alts |-> <<<<Lit(word)>>>>]
\* (\d+(?:\.\d+)?)\s*[-]?\s*piece|pieces\b     one group, two top-level alternatives
QtyPiece == [shape |-> "qty piece", alts |-> <<>>]
\* (\d+)\s*[x]\s*(\d+(?:\.\d+)?)\s*(a1|a2|...) three groups, no \b
Combined(alts) == [shape |-> "combined", alts |-> alts]

FlOz == <<Lit(<<"f", "l">>), OptDot, Spaces0, Lit(<<"o", "z">>)>>

PATTERNS == <<
    QtyUnit(<< <<Lit(<<"o", "z">>)>>, <<Lit(<<"o", "u", "n", "c", "e">>)>>, <<Lit(<<"o", "u", "n", "c", "e", "s">>)>> >>),
    QtyUnit(<< <<Lit(<<"l", "b">>)>>, <<Lit(<<"l", "b", "s">>)>>, <<Lit(<<"p", "o", "u", "n", "d">>)>>, <<Lit(<<"p", "o", "u", "n", "d", "s">>)>> >>),
    QtyUnit(<< <<Lit(<<"g">>)>>, <<Lit(<<"g", "r", "a", "m">>)>>, <<Lit(<<"g", "r", "a", "m", "s">>)>> >>),
    QtyUnit(<< <<Lit(<<"k", "g">>)>>, <<Lit(<<"k", "i", "l", "o", "g", "r", "a", "m">>)>>, <<Lit(<<"k", "i", "l", "o", "g", "r", "a", "m", "s">>)>> >>),
    QtyUnit(<< FlOz,
               <<Lit(<<"f", "l", "u", "i", "d">>), Spaces1, Lit(<<"o", "u", "n", "c", "e">>)>>,
               <<Lit(<<"f", "l", "u", "i", "d">>), Spaces1, Lit(<<"o", "u", "n", "c", "e", "s">>)>> >>),
    QtyUnit(<< <<Lit(<<"m", "l">>)>>, <<Lit(<<"m", "i", "l", "l", "i", "l", "i", "t", "e", "r">>)>>, <<Lit(<<"m", "i", "l", "l", "i", "l", "i", "t", "e", "r", "s">>)>> >>),
    QtyUnit(<< <<Lit(<<"l">>)>>, <<Lit(<<"l", "i", "t", "e", "r">>)>>, <<Lit(<<"l", "i", "t", "e", "r", "s">>)>> >>),
    QtyUnit(<< <<Lit(<<"g", "a", "l">>)>>, <<Lit(<<"g", "a", "l", "l", "o", "n">>)>>, <<Lit(<<"g", "a", "l", "l", "o", "n", "s">>)>> >>),
    QtyWord(<<"p", "a", "c", "k">>),
    QtyWord(<<"c", "o", "u", "n", "t">>),
    QtyWord(<<"c", "t">>),
    QtyPiece,
    Combined(<< <<Lit(<<"o", "z">>)>>, <<Lit(<<"l", "b">>)>>, <<Lit(<<"g">>)>>, <<Lit(<<"m", "l">>)>>, FlOz >>) >>

NoMatch == [ok |-> FALSE, groups |-> <<>>]
Matched(groups) == [ok |-> TRUE, groups |-> groups]

\* the rest of a pattern after its number s[i..e-1]: \s*[-]?\s*(a1|...)\b
UnitAfter(s, i, e, alts, captured) ==
    The({The({IF f = 0 THEN NoMatch
              ELSE IF captured THEN Matched(<<SubSeq(s, i, e - 1), SubSeq(s, u, f - 1)>>)
              ELSE Matched(<<SubSeq(s, i, e - 1)>>) :
              f \in {AltEnd(s, u, alts, 1, TRUE)}}) : u \in {SepEnd(s, e)}})

\* the rest of the combined pattern after its count s[i..c-1] and the x at s[x]
CombinedAfter(s, i, c, x, alts) ==
    The({The({IF m = 0 THEN NoMatch
              ELSE The({The({IF f = 0 THEN NoMatch
                             ELSE Matched(<<SubSeq(s, i, c - 1), SubSeq(s, n, m - 1),
                                            SubSeq(s, v, f - 1)>>) :
                             f \in {AltEnd(s, v, alts, 1, FALSE)}}) :
                        v \in {SkipSpaces(s, m)}}) :
              m \in {NumberEnd(s, n)}}) : n \in {SkipSpaces(s, x + 1)}})

\* pattern p matched with its first character at position i: match.groups()
MatchAt(s, i, p) ==
    CASE p.shape = "qty unit" ->
            The({IF e = 0 THEN NoMatch ELSE UnitAfter(s, i, e, p.alts, TRUE) :
                 e \in {NumberEnd(s, i)}})
      [] p.shape = "qty word" ->
            The({IF e = 0 THEN NoMatch ELSE UnitAfter(s, i, e, p.alts, FALSE) :
                 e \in {NumberEnd(s, i)}})
      [] p.shape = "qty piece" ->
            The({IF e # 0 /\ LitEnd(s, SepEnd(s, e), <<"p", "i", "e", "c", "e">>) # 0
                 THEN Matched(<<SubSeq(s, i, e - 1)>>)
                 ELSE The({IF g # 0 /\ WordBoundary(s, g) THEN Matched(<<None>>)
                           ELSE NoMatch : g \in {LitEnd(s, i, <<"p", "i", "e", "c", "e", "s">>)}}) :
                 e \in {NumberEnd(s, i)}})
      [] p.shape = "combined" ->
            The({IF c = 0 THEN NoMatch
                 ELSE The({IF x > Len(s) \/ s[x] # "x" THEN NoMatch
                           ELSE CombinedAfter(s, i, c, x, p.alts) :
                           x \in {SkipSpaces(s, c)}}) :
                 c \in {DigitsEnd(s, i)}})

\* re.search: the leftmost match
Search(s, p) ==
    The({IF starts = {} THEN NoMatch
         ELSE MatchAt(s, CHOOSE i \in starts : \A j \in starts : i <= j, p) :
         starts \in {{i \in 1..Len(s) : MatchAt(s, i, p).ok}}})

\* int(t) of a text of digits: its first n digits
RECURSIVE DigitsValueOf(_, _)
DigitsValueOf(t, n) ==
    IF n = 0 THEN 0 ELSE DigitsValueOf(t, n - 1) * 10 + DigitValue(t[n])

DigitsValue(t) == DigitsValueOf(t, Len(t))

RECURSIVE Pow10(_)
Pow10(n) == IF n = 0 THEN 1 ELSE 10 * Pow10(n - 1)

\* float(text) of a text matching \d+(?:\.\d+)?, in 1/QtyScale (at most 5 decimals)
ParseFloat(t) ==
    LET dots == {i \in 1..Len(t) : t[i] = "."}
        d == IF dots = {} THEN Len(t) + 1 ELSE CHOOSE i \in dots : TRUE
        frac == SubSeq(t, d + 1, Len(t))
    IN  DigitsValue(SubSeq(t, 1, d - 1)) * QtyScale
        + (DigitsValue(frac) * QtyScale) \div Pow10(Len(frac))

NoUnit == [quantity |-> None, unit |-> None]

\* the loop over PATTERNS, from pattern k on
RECURSIVE ExtractFrom(_, _)
ExtractFrom(title_lower, k) ==
    IF k > Len(PATTERNS) THEN NoUnit
    ELSE The({LET groups == match.groups
              IN  IF match.ok /\ Len(groups) = 3 /\ IsDigitStr(groups[1])
                  THEN [quantity |-> Some(DigitsValue(groups[1]) * ParseFloat(groups[2])),
                        unit |-> Strip(groups[3])]
                  ELSE IF match.ok /\ Len(groups) >= 2
                  THEN [quantity |-> Some(ParseFloat(groups[1])),
                        unit |-> Strip(groups[2])]
                  ELSE ExtractFrom(title_lower, k + 1) :
              match \in {Search(title_lower, PATTERNS[k])}})

extract_unit_from_title(title) ==
    IF title = <<>> THEN NoUnit
    ELSE The({ExtractFrom(title_lower, 1) : title_lower \in {Lower(title)}})

\* `not quantity` of an Optional number
Falsy(o) == o = None \/ Val(o) = 0

normalize_to_standard_unit(quantity, unit) ==
    IF Falsy(quantity) \/ unit = <<>> THEN NoUnit
    ELSE The({IF InTable(WEIGHT_CONVERSIONS, unit_lower)
              THEN [quantity |-> Some(MulFactor(Val(quantity),
                                      Factor(WEIGHT_CONVERSIONS, unit_lower))),
                    unit |-> <<"o", "z">>]
              ELSE IF InTable(VOLUME_CONVERSIONS, unit_lower)
              THEN [quantity |-> Some(MulFactor(Val(quantity),
                                      Factor(VOLUME_CONVERSIONS, unit_lower))),
                    unit |-> <<"f", "l", " ", "o", "z">>]
              ELSE IF unit_lower \in COUNT_UNITS
              THEN [quantity |-> quantity, unit |-> <<"c", "o", "u", "n", "t">>]
              ELSE NoUnit : unit_lower \in {Strip(Lower(unit))}})

\* round(x, 4) of the Decimal x = n / d * 10^-4 ... : ROUND_HALF_EVEN
RoundHalfEven(qr, d) ==
    IF 2 * qr[2] > d \/ (2 * qr[2] = d /\ qr[1] % 2 = 1) THEN qr[1] + 1 ELSE qr[1]

\* RoundedQuotient with the sign of the price dropped
RoundedQuotientUnsigned(price, normalized_qty) ==
    The({RoundHalfEven(qr, normalized_qty) :
         qr \in {LongDiv(Abs(price), normalized_qty, 4)}})

\* price / normalized_qty, rounded; the sign of a Decimal is kept apart from its digits
RoundedQuotient(price, normalized_qty) ==
    The({IF price < 0 THEN -q ELSE q :
         q \in {The({RoundHalfEven(qr, normalized_qty) :
                     qr \in {LongDiv(Abs(price), normalized_qty, 4)}})}})

\* calculate_unit_price dividing by the quantity as given, whatever the unit
UnitPriceOfRawQuantity(price, quantity, unit) ==
    IF Falsy(price) \/ Falsy(quantity) \/ unit = <<>> THEN None
    ELSE Some(RoundedQuotient(Val(price), Val(quantity)))

UnitCalculator_calculate_unit_price(price, quantity, unit) ==
    IF Falsy(price) \/ Falsy(quantity) \/ unit = <<>> THEN None
    ELSE The({IF Falsy(n.quantity) THEN None
              ELSE Some(RoundedQuotient(Val(price), Val(n.quantity))) :
              n \in {normalize_to_standard_unit(quantity, unit)}})

get_unit_type(unit) ==
    IF unit = <<>> THEN None
    ELSE The({IF InTable(WEIGHT_CONVERSIONS, unit_lower) THEN <<"o", "z">>
              ELSE IF InTable(VOLUME_CONVERSIONS, unit_lower) THEN <<"f", "l", " ", "o", "z">>
              ELSE IF unit_lower \in COUNT_UNITS THEN <<"c", "o", "u", "n", "t">>
              ELSE None : unit_lower \in {Strip(Lower(unit))}})

\* the branch on type_str shared by extract_unit_info and calculate_from_title
UnitTypeOf(type_str) ==
    IF type_str = <<"w", "e", "i", "g", "h", "t">> THEN "WEIGHT"
    ELSE IF type_str = <<"v", "o", "l", "u", "m", "e">> THEN "VOLUME"
    ELSE IF type_str = <<"c", "o", "u", "n", "t">> THEN "COUNT"
    ELSE "UNKNOWN"

extract_and_calculate_unit_price(title, price) ==
    The({IF Falsy(e.quantity) \/ e.unit = <<>>
         THEN [unit_price |-> None, unit_type |-> None, quantity |-> None]
         ELSE [unit_price |-> UnitCalculator_calculate_unit_price(price, e.quantity, e.unit),
               unit_type |-> get_unit_type(e.unit),
               quantity |-> e.quantity] : e \in {extract_unit_from_title(title)}})

extract_unit_info(title) ==
    The({[quantity |-> e.quantity,
          unit |-> e.unit,
          unit_type |-> IF e.unit # <<>> THEN UnitTypeOf(get_unit_type(e.unit))
                        ELSE "UNKNOWN"] : e \in {extract_unit_from_title(title)}})

UnitPriceCalculator_calculate_unit_price(price, quantity, unit) ==
    IF Val(price) < 0 THEN None
    ELSE UnitCalculator_calculate_unit_price(price, quantity, unit)

\* lines 429-454, once the title has given quantity and unit e
FromExtracted(e, price) ==
    The({LET quantity == IF n.quantity # None THEN n.quantity ELSE e.quantity
             unit == IF n.unit # None THEN n.unit ELSE e.unit
         IN  [unit_price |-> UnitCalculator_calculate_unit_price(price, quantity, unit),
              quantity |-> quantity,
              unit |-> unit,
              unit_type |-> UnitTypeOf(get_unit_type(unit))] :
         n \in {normalize_to_standard_unit(e.quantity, e.unit)}})

calculate_from_title(title, price) ==
    The({IF Falsy(e.quantity) \/ e.unit = <<>>
         THEN [unit_price |-> None, quantity |-> None, unit |-> None, unit_type |-> "None"]
         ELSE FromExtracted(e, price) : e \in {extract_unit_from_title(title)}})

(***************************************************************************)
(* scoring.py                                                              *)
(***************************************************************************)
ScoreScale == 1000000

\* int(x): truncation toward zero of a score in 1/ScoreScale points
IntOf(x) == IF x >= 0 THEN x \div ScoreScale ELSE -((-x) \div ScoreScale)

\* math.log10(review_count) * 5 in 1/ScoreScale points, for the review counts modelled
Log10Times5(review_count) ==
    CASE review_count = 1 -> 0
      [] review_count = 3 -> 2385606
      [] review_count = 100 -> 10000000
      [] review_count = 5000 -> 18494850
      [] review_count = 100000 -> 25000000

\* the low ad spend bonus left out
NoAdSpendBonus(is_sponsored, sponsored_frequency) == 0

\* lines 91-95, sponsored_frequency in hundredths
LowAdSpendBonus(is_sponsored, sponsored_frequency) ==
    IF ~is_sponsored /\ sponsored_frequency < 10 THEN 20
    ELSE IF ~is_sponsored THEN 10
    ELSE 0

\* ratings are in hundredths, unit prices in 1/UnitPriceScale dollars,
\* sponsored_frequency in hundredths
calculate_hidden_gem_score(rating, review_count, search_position, unit_price, category_median_unit_price, is_sponsored, sponsored_frequency) ==
    LET rating_bonus ==
            IF ~Falsy(rating) /\ Val(rating) >= 450 THEN 30
            ELSE IF ~Falsy(rating) /\ Val(rating) >= 400 THEN 20
            ELSE IF ~Falsy(rating) /\ Val(rating) >= 350 THEN 10
            ELSE 0
        \* lines 70-78: the position bonus is part of the body of `if review_count > 0`
        review_score ==
            IF review_count > 0
            THEN Min(20 * ScoreScale, Log10Times5(review_count))
                 + Min(30, (search_position - 20) * 2) * ScoreScale
            ELSE 0
        discount ==
            LongDiv((Val(category_median_unit_price) - Val(unit_price)) * 100,
                    Val(category_median_unit_price), 6)[1]
        price_bonus ==
            IF ~Falsy(unit_price) /\ ~Falsy(category_median_unit_price)
               /\ Val(category_median_unit_price) > 0
               /\ Val(category_median_unit_price) > Val(unit_price)
            THEN Min(30 * ScoreScale, discount)
            ELSE 0
        ad_bonus == LowAdSpendBonus(is_sponsored, sponsored_frequency)
    IN  Min(100, IntOf(rating_bonus * ScoreScale + review_score + price_bonus
                       + ad_bonus * ScoreScale))

\* the types a numeric argument arrives in: Decimal from the database columns,
\* float from computed statistics
NumberTypes == {"Decimal", "float"}

\* Decimal - float and Decimal / float raise TypeError (comparisons do not)
ArithmeticError(a_type, b_type) == IF a_type # b_type THEN "TypeError" ELSE "none"

\* what a try block lets through: `except (handled...)`
Uncaught(exception, handled) == IF exception \in handled THEN "none" ELSE exception

\* lines 81-89: the exception the unit price bonus raises to the caller, for a
\* Decimal unit price and a median of type median_type
hidden_gem_exception(unit_price, category_median_unit_price, median_type) ==
    IF ~Falsy(unit_price) /\ ~Falsy(category_median_unit_price)
       /\ Val(category_median_unit_price) > 0
    THEN Uncaught(ArithmeticError("Decimal", median_type),
                  {"ValueError", "ZeroDivisionError"})
    ELSE "none"

\* discount_pct and rating are in hundredths, unit prices in 1/UnitPriceScale dollars
calculate_deal_quality_score(unit_price, category_median_unit_price, discount_pct, rating, review_count, is_prime) ==
    LET \* lines 149-158, by the exact price_ratio unit_price / median
        up == Val(unit_price)
        median == Val(category_median_unit_price)
        price_component ==
            IF ~Falsy(unit_price) /\ ~Falsy(category_median_unit_price) /\ median > 0
            THEN IF up * 10 <= 7 * median THEN 40 * ScoreScale
                 ELSE IF up * 10 <= 8 * median THEN 35 * ScoreScale
                 ELSE IF up * 10 <= 9 * median THEN 30 * ScoreScale
                 ELSE IF up <= median THEN 25 * ScoreScale
                 ELSE Max(0, 25 * ScoreScale - LongDiv((up - median) * 50, median, 6)[1])
            ELSE 0
        discount_score ==
            IF ~Falsy(discount_pct)
            THEN Min(30 * ScoreScale, Val(discount_pct) * 6 * (ScoreScale \div 1000))
            ELSE 0
        rating_score ==
            IF ~Falsy(rating) THEN Val(rating) * 4 * (ScoreScale \div 100) ELSE 0
        review_score ==
            IF review_count > 0
            THEN Min(10 * ScoreScale, Log10Times5(review_count) \div 2)
            ELSE 0
        prime_bonus == IF is_prime THEN 5 * ScoreScale ELSE 0
    IN  Min(100, IntOf(price_component + discount_score + rating_score + review_score
                       + prime_bonus))

\* lines 146-160: the exception the unit price component raises to the caller,
\* for a Decimal unit price and a median of type median_type
deal_quality_exception(unit_price, category_median_unit_price, median_type) ==
    IF ~Falsy(unit_price) /\ ~Falsy(category_median_unit_price)
       /\ Val(category_median_unit_price) > 0
    THEN Uncaught(ArithmeticError("Decimal", median_type),
                  {"ValueError", "ZeroDivisionError"})
    ELSE "none"

\* int(a / b) for b > 0: the quotient truncated toward zero
TruncDiv(a, b) == IF a >= 0 THEN a \div b ELSE -((-a) \div b)

\* a price history is a sequence of entries [price, age]: the (price, date) pairs,
\* with price None for an entry float() rejects and age = now - date in days
RECURSIVE SumPrices(_, _)
SumPrices(prices, n) == IF n = 0 THEN 0 ELSE SumPrices(prices, n - 1) + prices[n]
MinPrice(prices) == CHOOSE p \in {prices[i] : i \in 1..Len(prices)} :
                        \A i \in 1..Len(prices) : p <= prices[i]
MaxPrice(prices) == CHOOSE p \in {prices[i] : i \in 1..Len(prices)} :
                        \A i \in 1..Len(prices) : p >= prices[i]

\* Clamp without the clamping
Unclamped(score) == score

\* line 240: max(0, min(100, score))
Clamp(score) == Max(0, Min(100, score))

\* lines 216-240, for the float prices of the window
PricePerformance(current, recent_prices) ==
    LET min_price == MinPrice(recent_prices)
        max_price == MaxPrice(recent_prices)
        total == SumPrices(recent_prices, Len(recent_prices))
        count == Len(recent_prices)
        \* int((1 - position) * 100)
        base == TruncDiv((max_price - current) * 100, max_price - min_price)
        with_bonus == IF current * 100 <= min_price * 102 THEN Min(100, base + 10)
                      ELSE base
        \* int(min(20, ((current - avg_price) / avg_price) * 50))
        penalty == IF current * count > total
                   THEN Min(20, TruncDiv((current * count - total) * 50, total))
                   ELSE 0
    IN  IF max_price = min_price THEN 100
        ELSE Clamp(with_bonus - penalty)

\* InLookback without the window: every entry counts
InLookbackAlways(entry, days) == TRUE

\* line 210: date >= cutoff_date, with cutoff_date = now - days
InLookback(entry, days) == entry.age <= days

\* prices in 1/PriceScale dollars, days and ages in days
calculate_price_performance_score(current_price, price_history, days) ==
    IF price_history = <<>> THEN 50
    ELSE LET InWindow(e) == InLookback(e, days)
         IN  The({IF \E i \in 1..Len(recent) : recent[i].price = None
                  THEN 50     \* float(None): TypeError, line 242
                  ELSE IF recent = <<>> THEN 50
                  ELSE PricePerformance(current_price,
                                        [i \in 1..Len(recent) |-> Val(recent[i].price)]) :
                  recent \in {SelectSeq(price_history, InWindow)}})

\* a / b * 100 - 100 * k as a percentage in hundredths, truncated toward zero
PercentOf(a, b) ==
    IF a >= 0 THEN LongDiv(a * 100, b, 2)[1] ELSE -LongDiv((-a) * 100, b, 2)[1]

\* the verdicts are the returned dicts: a key the dict lacks is None, and a
\* formatted message is its fixed text

\* NoHistoryVerdict turned into a rejection
NoHistoryRejected == [is_legitimate |-> FALSE, confidence |-> "low",
                      message |-> "No price history available",
                      real_discount_pct |-> None, inflated_by_pct |-> None]

\* lines 264-268
NoHistoryVerdict == [is_legitimate |-> TRUE, confidence |-> "low",
                     message |-> "No price history available",
                     real_discount_pct |-> None, inflated_by_pct |-> None]

\* lines 308-312
Unvalidated == [is_legitimate |-> TRUE, confidence |-> "low",
                message |-> "Unable to validate discount",
                real_discount_pct |-> None, inflated_by_pct |-> None]

\* Inflated with the threshold at 20%: list_price > max_historical * 1.2
InflatedAboveFifth(listed, max_historical) == listed * 10 > max_historical * 12

\* line 279: float(list_price) > max_historical * 1.1
Inflated(listed, max_historical) == listed * 10 > max_historical * 11

\* lines 272-305, for the float prices of the history
TrueDiscount(current, listed, historical_prices) ==
    LET max_historical == MaxPrice(historical_prices)
        total == SumPrices(historical_prices, Len(historical_prices))
        count == Len(historical_prices)
    IN  IF Inflated(listed, max_historical)
        THEN IF max_historical = 0 THEN Unvalidated     \* ZeroDivisionError, line 307
             ELSE [is_legitimate |-> FALSE, confidence |-> "high",
                   message |-> "Fake MSRP. Never sold above",
                   real_discount_pct |-> Some(PercentOf(current - max_historical,
                                                        max_historical)),
                   inflated_by_pct |-> Some(PercentOf(listed - max_historical,
                                                      max_historical))]
        ELSE IF total = 0 THEN Unvalidated              \* ZeroDivisionError, line 307
        ELSE [is_legitimate |-> TRUE,
              confidence |-> IF (total - current * count) * 100 > 15 * total
                             THEN "high" ELSE "medium",
              message |-> IF (total - current * count) * 100 > 15 * total
                          THEN "Legitimate discount vs 90-day average"
                          ELSE "Modest discount",
              real_discount_pct |-> Some(PercentOf(total - current * count, total)),
              inflated_by_pct |-> None]

is_true_discount(current_price, list_price, price_history) ==
    IF price_history = <<>> THEN NoHistoryVerdict
    ELSE IF \E i \in 1..Len(price_history) : price_history[i].price = None
    THEN Unvalidated                                    \* float(None): TypeError, line 307
    ELSE TrueDiscount(current_price, list_price,
                      [i \in 1..Len(price_history) |-> Val(price_history[i].price)])

(***************************************************************************)
(* Calls of the stateless entry points, on inputs drawn from bounded sets  *)
(***************************************************************************)
Ratings == {None, Some(0), Some(300), Some(350), Some(400), Some(450), Some(500)}
ReviewCounts == {0, 1, 3, 100, 5000, 100000}
SearchPositions == {1, 20, 21, 35, 36, 50}
UnitPrices == {None, Some(0), Some(5000), Some(10000)}
MedianUnitPrices == {None, Some(0), Some(8000)}
SponsoredFrequencies == {5, 10}

NoCall == [op |-> "none", args |-> <<>>, result |-> <<>>, raised |-> "none"]

Leads == {<<>>, <<"C", " ", "1", "0", "0", "0", "m", "g", " ">>, <<"1", "2", " ", "x", " ">>, <<"1", "2", " ", "P", "a", "c", "k", " ">>}
Separators == {<<>>, <<" ">>, <<"-">>}
UnitWords == {<<"o", "z">>, <<"O", "u", "n", "c", "e", "s">>, <<"l", "b">>, <<"g">>, <<"g", "r">>, <<"k", "g">>, <<"m", "g">>, <<"f", "l", " ", "o", "z">>, <<"f", "l", "o", "z">>,
              <<"m", "l">>, <<"L">>, <<"g", "a", "l">>, <<"P", "a", "c", "k">>, <<"C", "o", "u", "n", "t">>, <<"c", "t">>, <<"p", "i", "e", "c", "e">>, <<"p", "i", "e", "c", "e", "s">>}
CountedWords == {<<"o", "z">>, <<"m", "g">>, <<"P", "a", "c", "k">>, <<"C", "o", "u", "n", "t">>, <<"c", "t">>, <<"p", "i", "e", "c", "e">>, <<"p", "i", "e", "c", "e", "s">>}
Titles ==
    {<<>>, <<"G", "e", "n", "e", "r", "i", "c", " ", "P", "r", "o", "d", "u", "c", "t">>, <<"V", "i", "t", "a", "m", "i", "n", " ", "C", " ", "1", "0", "0", "0", "m", "g", " ", "1", "0", "0", " ", "C", "o", "u", "n", "t">>, <<"P", "r", "o", "t", "e", "i", "n", " ", "P", "o", "w", "d", "e", "r", " ", "5", " ", "l", "b">>}
    \cup {l \o n \o s \o u : l \in Leads, n \in {<<"5">>, <<"1", "6">>, <<"1", ".", "5">>},
                             s \in Separators, u \in UnitWords}
    \cup {l \o <<"1", "0", "0">> \o s \o u : l \in Leads, s \in Separators, u \in CountedWords}

TitlePrices == {Some(-600000), Some(0), Some(500000), Some(1999000)}
Prices == {Some(-1999000), Some(0), Some(4), Some(100025), Some(100035),
           Some(500000), Some(1999000), Some(4999000)}
Quantities == {None, Some(0), Some(100000), Some(1000000), Some(3200000), Some(8000000),
               Some(10000000)}
Units == {<<>>, <<"o", "z">>, <<"l", "b">>, <<"g">>, <<" ", "P", "t", " ">>, <<"c", "o", "u", "n", "t">>, <<"f", "l", "o", "z">>}

\* the call returned result
Called(op, args, result) ==
    /\ call' = [op |-> op, args |-> args, result |-> result, raised |-> "none"]
    /\ UNCHANGED <<history, now, pc, frame, ret>>

\* the call raised exception to its caller
Raised(op, args, exception) ==
    /\ call' = [op |-> op, args |-> args, result |-> None, raised |-> exception]
    /\ UNCHANGED <<history, now, pc, frame, ret>>

Call_calculate_hidden_gem_score ==
    /\ call = NoCall
    /\ \E rating \in Ratings, review_count \in ReviewCounts,
          search_position \in SearchPositions, unit_price \in UnitPrices,
          median \in MedianUnitPrices, median_type \in NumberTypes,
          is_sponsored \in BOOLEAN, sponsored_frequency \in SponsoredFrequencies :
           LET args == [rating |-> rating, review_count |-> review_count,
                        search_position |-> search_position, unit_price |-> unit_price,
                        category_median_unit_price |-> median,
                        median_type |-> median_type, is_sponsored |-> is_sponsored,
                        sponsored_frequency |-> sponsored_frequency]
           IN  IF hidden_gem_exception(unit_price, median, median_type) # "none"
               THEN Raised("calculate_hidden_gem_score", args,
                           hidden_gem_exception(unit_price, median, median_type))
               ELSE Called("calculate_hidden_gem_score", args,
                           calculate_hidden_gem_score(rating, review_count,
                                                      search_position, unit_price,
                                                      median, is_sponsored,
                                                      sponsored_frequency))

DealUnitPrices == {None, Some(0), Some(5600), Some(6400), Some(7000), Some(8000),
                   Some(10000), Some(16000)}
DiscountPcts == {None, Some(0), Some(2000), Some(5000), Some(10000)}
DealRatings == {None, Some(0), Some(300), Some(470), Some(500)}

Call_calculate_deal_quality_score ==
    /\ call = NoCall
    /\ \E unit_price \in DealUnitPrices, median \in MedianUnitPrices,
          median_type \in NumberTypes, discount_pct \in DiscountPcts,
          rating \in DealRatings, review_count \in ReviewCounts, is_prime \in BOOLEAN :
           LET args == [unit_price |-> unit_price, category_median_unit_price |-> median,
                        median_type |-> median_type, discount_pct |-> discount_pct,
                        rating |-> rating, review_count |-> review_count,
                        is_prime |-> is_prime]
           IN  IF deal_quality_exception(unit_price, median, median_type) # "none"
               THEN Raised("calculate_deal_quality_score", args,
                           deal_quality_exception(unit_price, median, median_type))
               ELSE Called("calculate_deal_quality_score", args,
                           calculate_deal_quality_score(unit_price, median, discount_pct,
                                                        rating, review_count, is_prime))

\* $0, $38, $40, $40.50, $45, $50, $60: prices at which the float arithmetic of
\* lines 226-238 and 280-290 truncates to the same integers as the exact one
ScorePrices == {0, 3800000, 4000000, 4050000, 4500000, 5000000, 6000000}
HistoryEntries == {[price |-> p, age |-> a] :
                       p \in {None, Some(0), Some(4000000), Some(5000000)},
                       a \in {1, 90, 91}}
PriceHistories ==
    {<<>>} \cup {<<e>> : e \in HistoryEntries}
    \cup {<<e1, e2>> : e1 \in HistoryEntries, e2 \in HistoryEntries}
    \cup {<<[price |-> Some(4000000), age |-> 60], [price |-> Some(4200000), age |-> 30],
             [price |-> Some(5000000), age |-> a]>> : a \in {1, 91}}
    \* a window whose maximum is within 2% of its minimum
    \cup {<<[price |-> Some(4000000), age |-> 1],
             [price |-> Some(4050000), age |-> a]>> : a \in {1, 91}}

Call_calculate_price_performance_score ==
    /\ call = NoCall
    /\ \E current_price \in ScorePrices, price_history \in PriceHistories,
          days \in {30, 90} :
           Called("calculate_price_performance_score",
                  [current_price |-> current_price, price_history |-> price_history,
                   days |-> days],
                  calculate_price_performance_score(current_price, price_history, days))

ListPrices == {0, 4000000, 4400000, 4400001, 5500000, 6000000}

Call_is_true_discount ==
    /\ call = NoCall
    /\ \E current_price \in ScorePrices, list_price \in ListPrices,
          price_history \in PriceHistories :
           Called("is_true_discount",
                  [current_price |-> current_price, list_price |-> list_price,
                   price_history |-> price_history],
                  is_true_discount(current_price, list_price, price_history))

Call_extract_unit_from_title ==
    /\ call = NoCall
    /\ \E title \in Titles :
           Called("extract_unit_from_title", [title |-> title],
                  extract_unit_from_title(title))

Call_extract_unit_info ==
    /\ call = NoCall
    /\ \E title \in Titles :
           Called("extract_unit_info", [title |-> title], extract_unit_info(title))

Call_calculate_from_title ==
    /\ call = NoCall
    /\ \E title \in Titles, price \in TitlePrices :
           Called("calculate_from_title", [title |-> title, price |-> price],
                  calculate_from_title(title, price))

Call_extract_and_calculate_unit_price ==
    /\ call = NoCall
    /\ \E title \in Titles, price \in TitlePrices :
           Called("extract_and_calculate_unit_price", [title |-> title, price |-> price],
                  extract_and_calculate_unit_price(title, price))

Call_UnitCalculator_calculate_unit_price ==
    /\ call = NoCall
    /\ \E price \in Prices \cup {None}, quantity \in Quantities, unit \in Units :
           Called("UnitCalculator.calculate_unit_price",
                  [price |-> price, quantity |-> quantity, unit |-> unit],
                  UnitCalculator_calculate_unit_price(price, quantity, unit))

\* absent, 0, 1, 5, 32 and units in other cases, padded, and unknown
NormalizedQuantities == {None, Some(0), Some(100000), Some(500000), Some(3200000)}
NormalizedUnits == {<<>>, <<"l", "b">>, <<" ", "L", "B", " ">>, <<"K", "g">>, <<"L">>, <<"o", "z">>, <<"f", "l", " ", "o", "z">>, <<"C", "o", "u", "n", "t">>, <<" ", "c", "t">>,
                    <<"f", "l", "o", "z">>}

Call_normalize_to_standard_unit ==
    /\ call = NoCall
    /\ \E quantity \in NormalizedQuantities, unit \in NormalizedUnits :
           Called("normalize_to_standard_unit", [quantity |-> quantity, unit |-> unit],
                  normalize_to_standard_unit(quantity, unit))

Call_UnitPriceCalculator_calculate_unit_price ==
    /\ call = NoCall
    /\ \E price \in Prices, quantity \in Quantities \ {None}, unit \in Units :
           Called("UnitPriceCalculator.calculate_unit_price",
                  [price |-> price, quantity |-> quantity, unit |-> unit],
                  UnitPriceCalculator_calculate_unit_price(price, quantity, unit))

(***************************************************************************)
(* services/price_history.py                                               *)
(*                                                                         *)
(* The service queries the table price_history of the initial schema       *)
(* (alembic/versions/001_initial_schema.py: product_id, price NUMERIC(10,2),*)
(* recorded_at).  history holds the rows of one product.  A row is [price,  *)
(* recorded_at]; its id is its index.  Rows are stamped by Insert with a   *)
(* clock that never runs backwards, so the row a query ordered by          *)
(* recorded_at returns first (desc) is the last one committed; equal       *)
(* hours stand for instants in commit order.                               *)
(***************************************************************************)
Workers == {"w1", "w2"}

MaxHistory == 3
MaxTime == 36
TickHours == 12

Cent == PriceScale \div 100
Dollar == PriceScale

\* the observed prices: $2.00, $2.004, $2.01, $2.02
HistoryPrices == {200000, 200400, 201000, 202000}

\* a price as the column price NUMERIC(10, 2) keeps it: to the nearest cent
\* (no observed price lies halfway between two cents)
StoredPrice(price) == ((price + Cent \div 2) \div Cent) * Cent

\* the pairs of HistoryPrices exactly one cent apart whose difference as binary
\* floats exceeds 0.01:  abs(2.01 - 2.02) = 0.010000000000000231, while
\* abs(2.0 - 2.01) = 0.009999999999999787
FloatTieAbove == {<<201000, 202000>>}

\* DiffersByMoreThanCent with the threshold at two cents
DiffersByMoreThanTwoCents(a, b) == Abs(a - b) > 2 * Cent

\* abs(float(a) - float(b)) > 0.01
DiffersByMoreThanCent(a, b) ==
    IF Abs(a - b) # Cent THEN Abs(a - b) > Cent
    ELSE <<Min(a, b), Max(a, b)>> \in FloatTieAbove

\* .order_by(PriceHistory.recorded_at.desc()).first()
LatestRow(rows) ==
    IF rows = <<>> THEN None
    ELSE Some(CHOOSE i \in 1..Len(rows) :
                 \A j \in 1..Len(rows) :
                     \/ rows[j].recorded_at < rows[i].recorded_at
                     \/ (rows[j].recorded_at = rows[i].recorded_at /\ j <= i))

NoFrame == [price |-> 0, last_record |-> None, time_diff |-> 0,
            price_changed |-> FALSE, should_record |-> FALSE]

\* Decision with the comparison of line 65 inverted: time_diff > timedelta(hours=24)
DecisionAgeInverted(f, rows, t) ==
    IF f.last_record = None
    THEN [f EXCEPT !.should_record = TRUE]
    ELSE LET last == rows[Val(f.last_record)]
             time_diff == t - last.recorded_at
             price_changed == Abs(last.price - f.price) > Cent
         IN  [f EXCEPT !.time_diff = time_diff,
                       !.price_changed = price_changed,
                       !.should_record = ~(~price_changed /\ time_diff > 24)]

\* lines 60-66: the locals after the decision, given the row the query returned
Decision(f, rows, t) ==
    IF f.last_record = None
    THEN [f EXCEPT !.should_record = TRUE]
    ELSE LET last == rows[Val(f.last_record)]
             time_diff == t - last.recorded_at
             price_changed == DiffersByMoreThanCent(last.price, f.price)
         IN  [f EXCEPT !.time_diff = time_diff,
                       !.price_changed = price_changed,
                       !.should_record = ~(~price_changed /\ time_diff < 24)]

\* lines 50-57: the call starts and queries the last record of the product
Query(w, price) ==
    /\ pc[w] \in {"idle", "done"}
    /\ Len(history) + Cardinality({v \in Workers : pc[v] \in {"queried", "insert"}})
           < MaxHistory
    /\ pc' = [pc EXCEPT ![w] = "queried"]
    /\ frame' = [frame EXCEPT ![w] = [NoFrame EXCEPT !.price = price,
                                                     !.last_record = LatestRow(history)]]
    /\ ret' = [ret EXCEPT ![w] = None]
    /\ UNCHANGED <<call, history, now>>

\* lines 59-70: decide, and return the last record when nothing is to be recorded
Decide(w) ==
    /\ pc[w] = "queried"
    /\ LET f == Decision(frame[w], history, now)
       IN  /\ frame' = [frame EXCEPT ![w] = f]
           /\ IF f.should_record
              THEN /\ pc' = [pc EXCEPT ![w] = "insert"]
                   /\ ret' = ret
              ELSE /\ pc' = [pc EXCEPT ![w] = "done"]
                   /\ ret' = [ret EXCEPT ![w] = f.last_record]
    /\ UNCHANGED <<call, history, now>>

\* lines 72-89: add the new record, commit and return it
Insert(w) ==
    /\ pc[w] = "insert"
    /\ history' = Append(history, [price |-> StoredPrice(frame[w].price),
                                   recorded_at |-> now])
    /\ ret' = [ret EXCEPT ![w] = Some(Len(history) + 1)]
    /\ pc' = [pc EXCEPT ![w] = "done"]
    /\ UNCHANGED <<call, now, frame>>

\* time passes
Tick ==
    /\ now + TickHours <= MaxTime
    /\ now' = now + TickHours
    /\ UNCHANGED <<call, history, pc, frame, ret>>

\* get_best_price_time with `lowest` the row .order_by(PriceHistory.price.asc()).first()
\* returned (an index into rows, None when no row is in the window)
get_best_price_time(rows, t, days, lowest) ==
    IF lowest = None
    THEN [best_price |-> None, days_ago |-> None, savings_from_current |-> None,
          recommendation |-> "absent"]
    ELSE LET lowest_price_record == rows[Val(lowest)]
             current_record == rows[Val(LatestRow(rows))]
             savings == current_record.price - lowest_price_record.price
             days_ago == (t - lowest_price_record.recorded_at) \div 24
         IN  [best_price |-> Some(lowest_price_record.price),
              days_ago |-> Some(days_ago),
              savings_from_current |-> IF savings # 0 THEN Some(savings) ELSE None,
              recommendation |->
                  IF days_ago < 7 /\ savings # 0 /\ savings < 1 * Dollar THEN "Buy now!"
                  ELSE IF savings # 0 /\ savings > 5 * Dollar THEN "Wait for better price"
                  ELSE "Good time to buy"]

\* the rows the query of lines 229-234 can return first: a cheapest row of the window
LowestInWindow(rows, t, days) ==
    LET window == {i \in 1..Len(rows) : rows[i].recorded_at >= t - days * 24}
    IN  IF window = {} THEN {None}
        ELSE {Some(i) : i \in {k \in window :
                                 \A j \in window : rows[k].price <= rows[j].price}}

\* the rows of the last `days` days: recorded_at >= cutoff_date
InWindow(rows, t, days) == {i \in 1..Len(rows) : rows[i].recorded_at >= t - days * 24}

\* .order_by(PriceHistory.recorded_at.asc()).first() among the rows of the window
OldestInWindow(rows, t, days) ==
    CHOOSE i \in InWindow(rows, t, days) :
        \A j \in InWindow(rows, t, days) : rows[i].recorded_at <= rows[j].recorded_at

\* the pairs <<old_price, current_price>> exactly 5% apart whose change as binary
\* floats lies beyond 5:  ((0.95 - 1.0) / 1.0) * 100 = -5.000000000000004 and
\* ((1.05 - 1.0) / 1.0) * 100 = 5.000000000000004, while ((19.0 - 20.0) / 20.0) * 100
\* = -5.0
FloatChangeBeyond == {<<100000, 95000>>, <<100000, 105000>>}

\* price_change_pct < -5 and price_change_pct > 5, for old_price > 0
ChangeBelowMinus5(old_price, current_price) ==
    \/ (current_price - old_price) * 100 < -5 * old_price
    \/ /\ (current_price - old_price) * 100 = -5 * old_price
       /\ <<old_price, current_price>> \in FloatChangeBeyond
ChangeAbove5(old_price, current_price) ==
    \/ (current_price - old_price) * 100 > 5 * old_price
    \/ /\ (current_price - old_price) * 100 = 5 * old_price
       /\ <<old_price, current_price>> \in FloatChangeBeyond

\* round(price_change_pct, 2), in hundredths of a percent
RoundedChange(old_price, current_price) ==
    The({IF current_price < old_price THEN -q ELSE q :
         q \in {The({RoundHalfEven(qr, old_price) :
                     qr \in {LongDiv(Abs(current_price - old_price) * 100, old_price, 2)}})}})

NoStatistics(days) ==
    [min_price |-> None, max_price |-> None, avg_price |-> None, current_price |-> None,
     price_change_pct |-> None, is_lowest |-> None, is_highest |-> None,
     data_points |-> 0, days_analyzed |-> days, trend |-> "absent"]

\* lines 174-206, given a window with rows; avg_price to 1/PriceScale dollars
Statistics(rows, window, current_price, old_price, days) ==
    LET prices == {rows[i].price : i \in window}
        min_price == CHOOSE p \in prices : \A q \in prices : p <= q
        max_price == CHOOSE p \in prices : \A q \in prices : p >= q
        total == SumPrices([i \in 1..Len(rows) |->
                               IF i \in window THEN rows[i].price ELSE 0], Len(rows))
        \* `if oldest_record and current_price:` and `if old_price > 0:`
        changed == current_price # 0 /\ old_price > 0 /\ current_price # old_price
    IN  [min_price |-> Some(min_price), max_price |-> Some(max_price),
         avg_price |-> Some(total \div Cardinality(window)),
         current_price |-> Some(current_price),
         price_change_pct |-> IF changed
                              THEN Some(RoundedChange(old_price, current_price))
                              ELSE None,
         is_lowest |-> IF current_price # 0 THEN Some(current_price = min_price) ELSE None,
         is_highest |-> IF current_price # 0 THEN Some(current_price = max_price) ELSE None,
         data_points |-> Cardinality(window), days_analyzed |-> days,
         trend |-> IF changed /\ ChangeBelowMinus5(old_price, current_price) THEN "down"
                   ELSE IF changed /\ ChangeAbove5(old_price, current_price) THEN "up"
                   ELSE "stable"]

\* prices in 1/PriceScale dollars, t and recorded_at in hours
get_price_statistics(rows, t, days) ==
    IF InWindow(rows, t, days) = {} THEN NoStatistics(days)
    ELSE Statistics(rows, InWindow(rows, t, days), rows[Val(LatestRow(rows))].price,
                    rows[OldestInWindow(rows, t, days)].price, days)

\* lines 290-295: the product's rows of the last `hours` hours, oldest first
\* (a product's rows are kept in the order they were recorded)
RecentRecords(rows, t, hours) ==
    LET Recent(r) == r.recorded_at >= t - hours
    IN  SelectSeq(rows, Recent)

\* the pairs <<old_price, new_price>> whose drop is exactly 10% and is less as binary
\* floats:  ((2.0 - 1.8) / 2.0) * 100 = 9.999999999999998, while
\* ((20.0 - 18.0) / 20.0) * 100 = 10.0
FloatDropBelow == {<<200000, 180000>>}

\* line 304: drop_pct >= min_drop_percentage, for old_price > 0
DropAtLeast(old_price, new_price, min_drop_percentage) ==
    /\ (old_price - new_price) * 100 >= min_drop_percentage * old_price
    /\ ~ /\ (old_price - new_price) * 100 = min_drop_percentage * old_price
         /\ <<old_price, new_price>> \in FloatDropBelow

\* lines 305-314, without the asin and the title copied from the product;
\* drop_percentage in hundredths of a percent
PriceDrop(product_id, recent_records) ==
    LET old_price == recent_records[1].price
        new_price == recent_records[Len(recent_records)].price
    IN  [product_id |-> product_id, old_price |-> old_price, new_price |-> new_price,
         drop_percentage |-> -RoundedChange(old_price, new_price),
         savings |-> old_price - new_price,
         timestamp |-> recent_records[Len(recent_records)].recorded_at]

\* lines 288-314: the alerts of the products from product k on, in product order
RECURSIVE DropsFrom(_, _, _, _, _)
DropsFrom(products, k, t, min_drop_percentage, hours) ==
    IF k > Len(products) THEN <<>>
    ELSE The({(IF Len(recent_records) >= 2 /\ recent_records[1].price > 0
                  /\ DropAtLeast(recent_records[1].price,
                                 recent_records[Len(recent_records)].price,
                                 min_drop_percentage)
               THEN <<PriceDrop(k, recent_records)>> ELSE <<>>)
              \o DropsFrom(products, k + 1, t, min_drop_percentage, hours) :
              recent_records \in {RecentRecords(products[k], t, hours)}})

\* line 317: list.sort(key=drop_percentage, reverse=True), a stable sort
InsertByDrop(alert, sorted) ==
    LET n == Cardinality({i \in 1..Len(sorted) :
                             sorted[i].drop_percentage > alert.drop_percentage})
    IN  SubSeq(sorted, 1, n) \o <<alert>> \o SubSeq(sorted, n + 1, Len(sorted))
RECURSIVE SortByDrop(_)
SortByDrop(alerts) ==
    IF alerts = <<>> THEN <<>> ELSE InsertByDrop(Head(alerts), SortByDrop(Tail(alerts)))

\* products[k] are the rows of the product with id k
get_price_drop_alerts(products, t, min_drop_percentage, hours) ==
    SortByDrop(DropsFrom(products, 1, t, min_drop_percentage, hours))

CallTime == 100 * 24
RowAges == {0, 72, 167, 168, 2159, 2161}
RowPrices == {4000000, 4900000, 4950000, 5000000, 5600000}
Rows == {[price |-> p, recorded_at |-> CallTime - a] : p \in RowPrices, a \in RowAges}
Tables == {<<>>} \cup {<<r>> : r \in Rows}
          \cup {t \in {<<r1, r2>> : r1 \in Rows, r2 \in Rows} :
                   t[1].recorded_at < t[2].recorded_at}

\* $0, $0.95, $1, $1.05, $19, $20, $21, $22, recorded now, 3 days, 30 days and 31
\* days ago
StatisticsPrices == {0, 95000, 100000, 105000, 1900000, 2000000, 2100000, 2200000}
StatisticsAges == {0, 72, 720, 744}
StatisticsRows == {[price |-> p, recorded_at |-> CallTime - a] :
                      p \in StatisticsPrices, a \in StatisticsAges}
StatisticsTables ==
    {<<>>} \cup {<<r>> : r \in StatisticsRows}
    \cup {t \in {<<r1, r2>> : r1 \in StatisticsRows, r2 \in StatisticsRows} :
             t[1].recorded_at < t[2].recorded_at}
    \cup {t \in {<<r1, r2, r3>> : r1 \in StatisticsRows, r2 \in StatisticsRows,
                                   r3 \in StatisticsRows} :
             t[1].recorded_at < t[2].recorded_at /\ t[2].recorded_at < t[3].recorded_at}

Call_get_price_statistics ==
    /\ call = NoCall
    /\ \E rows \in StatisticsTables, days \in {30} :
           Called("get_price_statistics", [rows |-> rows, now |-> CallTime, days |-> days],
                  get_price_statistics(rows, CallTime, days))

\* $0, $1.80, $2, $17, $18, $20, recorded now, 24 hours and 30 hours ago
DropPrices == {0, 180000, 200000, 1700000, 1800000, 2000000}
DropAges == {0, 24, 30}
DropRows == {[price |-> p, recorded_at |-> CallTime - a] : p \in DropPrices, a \in DropAges}
DropTables ==
    {<<>>} \cup {<<r>> : r \in DropRows}
    \cup {t \in {<<r1, r2>> : r1 \in DropRows, r2 \in DropRows} :
             t[1].recorded_at < t[2].recorded_at}

Call_get_price_drop_alerts ==
    /\ call = NoCall
    /\ \E rows1 \in DropTables, rows2 \in DropTables, min_drop_percentage \in {10, 15} :
           Called("get_price_drop_alerts",
                  [products |-> <<rows1, rows2>>, now |-> CallTime,
                   min_drop_percentage |-> min_drop_percentage, hours |-> 24],
                  get_price_drop_alerts(<<rows1, rows2>>, CallTime, min_drop_percentage, 24))

Call_get_best_price_time ==
    /\ call = NoCall
    /\ \E rows \in Tables, days \in {30, 90} :
           \E lowest \in LowestInWindow(rows, CallTime, days) :
               Called("get_best_price_time",
                      [rows |-> rows, now |-> CallTime, days |-> days, lowest |-> lowest],
                      get_best_price_time(rows, CallTime, days, lowest))

(***************************************************************************)
(* Specifications                                                          *)
(***************************************************************************)
Init ==
    /\ call = NoCall
    /\ history = <<>>
    /\ now = 0
    /\ pc = [w \in Workers |-> "idle"]
    /\ frame = [w \in Workers |-> NoFrame]
    /\ ret = [w \in Workers |-> None]

\* record_price called by workers that share the database and nothing else
Next ==
    \/ Tick
    \/ \E w \in Workers, price \in HistoryPrices : Query(w, price)
    \/ \E w \in Workers : Decide(w)
    \/ \E w \in Workers : Insert(w)

Spec == Init /\ [][Next]_vars

\* record_price called by one caller, again only after the previous call has returned
QuerySeq(w, price) ==
    /\ \A v \in Workers : pc[v] \in {"idle", "done"}
    /\ Query(w, price)

NextSeq ==
    \/ Tick
    \/ \E price \in HistoryPrices : QuerySeq("w1", price)
    \/ Decide("w1")
    \/ Insert("w1")

SpecSeq == Init /\ [][NextSeq]_vars

\* one call of a stateless entry point on inputs drawn from the bounded sets
NextCalls ==
    \/ Call_calculate_hidden_gem_score
    \/ Call_calculate_deal_quality_score
    \/ Call_calculate_price_performance_score
    \/ Call_normalize_to_standard_unit
    \/ Call_get_price_statistics
    \/ Call_get_price_drop_alerts
    \/ Call_is_true_discount
    \/ Call_extract_unit_from_title
    \/ Call_extract_unit_info
    \/ Call_calculate_from_title
    \/ Call_extract_and_calculate_unit_price
    \/ Call_UnitCalculator_calculate_unit_price
    \/ Call_UnitPriceCalculator_calculate_unit_price
    \/ Call_get_best_price_time

SpecCalls == Init /\ [][NextCalls]_vars

(***************************************************************************)
(* Claims about the scoring and the unit-price pipeline, under SpecCalls   *)
(***************************************************************************)
\* C1: for every valid input calculate_hidden_gem_score returns an integer in
\* [0,100], never negative and never above 100.
C1_HiddenGemScoreInRange ==
    (call.op = "calculate_hidden_gem_score" /\ call.raised = "none")
        => call.result \in 0..100

\* the numbers of the titles, as text and in 1/QtyScale
NumberTexts == {<<<<"5">>, 500000>>, <<<<"1", "6">>, 1600000>>, <<<<"1", ".", "5">>, 150000>>,
                <<<<"1", "0", "0">>, 10000000>>}

\* titles whose only quantity mention is a count mention, with the number mentioned
CountMentions ==
    {[title |-> <<"V", "i", "t", "a", "m", "i", "n", " ", "C", " ", "1", "0", "0", "0", "m", "g", " ", "1", "0", "0", " ", "C", "o", "u", "n", "t">>, n |-> 10000000]}
    \cup {[title |-> l \o n[1] \o s \o u, n |-> n[2]] :
              l \in {<<>>, <<"C", " ", "1", "0", "0", "0", "m", "g", " ">>}, n \in NumberTexts, s \in Separators,
              u \in {<<"P", "a", "c", "k">>, <<"C", "o", "u", "n", "t">>, <<"c", "t">>, <<"p", "i", "e", "c", "e">>, <<"p", "i", "e", "c", "e", "s">>}}

\* C2: for a title whose only quantity mention is a count mention, extraction
\* returns the number mentioned with a count unit, and the pipeline yields the
\* unit price price / n with canonical unit 'count'; the result is not absent.
C2_CountMentionExtracted ==
    \A m \in CountMentions :
        /\ (call.op = "extract_unit_from_title" /\ call.args.title = m.title)
               => /\ call.result.quantity = Some(m.n)
                  /\ call.result.unit \in COUNT_UNITS
        /\ (call.op = "calculate_from_title" /\ call.args.title = m.title
            /\ Val(call.args.price) > 0)
               => /\ call.result.quantity = Some(m.n)
                  /\ call.result.unit = <<"c", "o", "u", "n", "t">>
                  /\ call.result.unit_price # None
                  /\ Val(call.result.unit_price)
                         \in {LongDiv(Val(call.args.price), m.n, 4)[1],
                              LongDiv(Val(call.args.price), m.n, 4)[1] + 1}

\* the unit type of a unit of the conversion tables
ExpectedUnitType(unit) ==
    IF InTable(WEIGHT_CONVERSIONS, unit) THEN "WEIGHT"
    ELSE IF InTable(VOLUME_CONVERSIONS, unit) THEN "VOLUME"
    ELSE IF unit \in COUNT_UNITS THEN "COUNT"
    ELSE "UNKNOWN"

\* C3: extract_unit_info and calculate_from_title report unit_type WEIGHT for an
\* extracted weight unit, VOLUME for a volume unit and COUNT for a count unit;
\* UNKNOWN (or absent) is reported only when no unit was extracted.
C3_UnitTypeOfExtractedUnit ==
    call.op \in {"extract_unit_info", "calculate_from_title"}
        => /\ (call.result.unit # None
               /\ ExpectedUnitType(call.result.unit) # "UNKNOWN")
                  => call.result.unit_type = ExpectedUnitType(call.result.unit)
           /\ call.result.unit_type \in {"UNKNOWN", "None"} => call.result.unit = None

\* the unit price a call of an entry point returned
ReturnedUnitPrice ==
    IF call.op \in {"calculate_from_title", "extract_and_calculate_unit_price"}
    THEN call.result.unit_price
    ELSE call.result

\* C4: a negative price yields an absent unit price through every entry point
\* that computes a unit price, and no entry point returns a negative unit price.
C4_NegativePriceAbsent ==
    call.op \in {"UnitCalculator.calculate_unit_price",
                 "UnitPriceCalculator.calculate_unit_price",
                 "calculate_from_title", "extract_and_calculate_unit_price"}
        => /\ (call.args.price # None /\ Val(call.args.price) < 0)
                  => ReturnedUnitPrice = None
           /\ ReturnedUnitPrice # None => Val(ReturnedUnitPrice) >= 0

\* a quotient <<q, remainder>> by d rounded half-up to the last digit of q
RoundHalfUp(qr, d) == IF 2 * qr[2] >= d THEN qr[1] + 1 ELSE qr[1]

\* C5: whenever calculate_unit_price returns a value, it is price /
\* normalized_quantity rounded half-up to 4 fractional digits: a fifth fractional
\* digit of exactly 5 with nothing after it rounds up (1.00025 to 1.0003).
C5_RoundedHalfUp ==
    (call.op = "UnitCalculator.calculate_unit_price" /\ call.result # None
     /\ Val(call.args.price) >= 0)
        => LET n == Val(normalize_to_standard_unit(call.args.quantity,
                                                   call.args.unit).quantity)
           IN  Val(call.result) = RoundHalfUp(LongDiv(Val(call.args.price), n, 4), n)

\* titles made of one multiplicative mention '12 x <quantity> <unit>'
CombinedMentions ==
    {[title |-> <<"1", "2", " ", "x", " ">> \o n[1] \o s \o u, quantity |-> 12 * n[2], unit |-> u] :
         n \in NumberTexts \ {<<<<"1", "0", "0">>, 10000000>>}, s \in {<<>>, <<" ">>},
         u \in {<<"o", "z">>, <<"l", "b">>, <<"g">>, <<"m", "l">>, <<"f", "l", " ", "o", "z">>}}

\* C6: for a title with a multiplicative mention '<count> x <quantity> <unit>',
\* unit in {oz, lb, g, ml, fl oz}, extraction returns the total quantity
\* count * quantity with the matched unit, not the quantity of a single item.
C6_CombinedMentionMultiplied ==
    \A m \in CombinedMentions :
        (call.op = "extract_unit_from_title" /\ call.args.title = m.title)
            => call.result = [quantity |-> Some(m.quantity), unit |-> m.unit]

\* C10: get_best_price_time recommends 'Buy now!' exactly when the best in-window
\* price was seen fewer than 7 days ago and the current price is within $1 of it
\* (a current price equal to the best one included); otherwise 'Wait for better
\* price' when the savings exceed $5; otherwise 'Good time to buy'.
C10_Recommendation ==
    (call.op = "get_best_price_time" /\ call.args.lowest # None)
        => LET rows == call.args.rows
               best == rows[Val(call.args.lowest)]
               current == rows[Val(LatestRow(rows))]
               days_ago == (call.args.now - best.recorded_at) \div 24
               savings == current.price - best.price
           IN  call.result.recommendation =
                   IF days_ago < 7 /\ savings < 1 * Dollar THEN "Buy now!"
                   ELSE IF savings > 5 * Dollar THEN "Wait for better price"
                   ELSE "Good time to buy"

(***************************************************************************)
(* Claims about record_price                                               *)
(***************************************************************************)
\* the observed price is less than a cent from the price of row and less than
\* 24 hours have passed since row was recorded
NearDuplicate(row, price, t) ==
    Abs(row.price - price) < Cent /\ t - row.recorded_at < 24

\* C7 (under SpecSeq): record_price appends a new point whenever the observed
\* price differs from the last recorded price by at least $0.01 (exactly $0.01
\* included) or at least 24h have elapsed; it skips only when the difference
\* is below $0.01 and less than 24h have elapsed.
C7_RecordsUnlessNearDuplicate ==
    \A w \in Workers :
        (pc[w] \in {"insert", "done"} /\ frame[w].last_record # None)
            => (frame[w].should_record
                    <=> ~(/\ Abs(history[Val(frame[w].last_record)].price
                                 - frame[w].price) < Cent
                          /\ frame[w].time_diff < 24))

\* C8 (under SpecSeq): a record_price call made less than 24h after the
\* product's last point, with a price less than $0.01 from it, returns that
\* point and leaves the history unchanged: no point added, none modified.
C8_SkipReturnsLastPoint ==
    [][\A w \in Workers :
          (/\ pc[w] = "queried" /\ pc'[w] # "queried"
           /\ LatestRow(history) # None
           /\ NearDuplicate(history[Val(LatestRow(history))], frame[w].price, now))
              => /\ history' = history
                 /\ pc'[w] = "done"
                 /\ ret'[w] = LatestRow(history)]_vars

\* a call has skipped an observed price that differs from the one point of the
\* history by less than a cent, and returned that point
C8_Witness ==
    /\ pc["w1"] = "done"
    /\ Len(history) = 1
    /\ ret["w1"] = Some(1)
    /\ ~frame["w1"].should_record
    /\ frame["w1"].price # history[1].price
    /\ NearDuplicate(history[1], frame["w1"].price, now)

\* C9 (under Spec): record_price is an idempotent append under concurrent
\* invocation: when two calls with the same price interleave, at most one point
\* is appended, so no history holds two successive points less than $0.01 and
\* less than 24h apart.
C9_NoNearDuplicatePoints ==
    \A i \in 1..(Len(history) - 1) :
        ~NearDuplicate(history[i], history[i + 1].price, history[i + 1].recorded_at)

\* C11: no scoring function raises to its caller: a division by zero or a type
\* error inside one makes the failing component contribute 0, price
\* performance return 50 and the discount verdict be legitimate with
\* confidence low
ScoringFunctions == {"calculate_hidden_gem_score", "calculate_deal_quality_score",
                     "calculate_price_performance_score", "is_true_discount"}
C11_ScoringNeverRaises ==
    call.op \in ScoringFunctions => call.raised = "none"

\* C12: with a non-empty history of positive prices, is_true_discount returns
\* is_legitimate = false if and only if list_price > 1.1 x the maximum price of
\* the whole supplied history, entries outside any window included; in that
\* case confidence is 'high' and real_discount_pct and inflated_by_pct are
\* both present; in every other case is_legitimate is true.
PositiveHistory(h) ==
    h # <<>> /\ \A i \in 1..Len(h) : h[i].price # None /\ Val(h[i].price) > 0
ListPriceAboveEveryPrice(list_price, h) ==
    \A i \in 1..Len(h) : list_price * 10 > Val(h[i].price) * 11
C12_IllegitimateIffListAboveMaximum ==
    (call.op = "is_true_discount" /\ PositiveHistory(call.args.price_history)) =>
        /\ call.raised = "none"
        /\ call.result.is_legitimate
               = ~ListPriceAboveEveryPrice(call.args.list_price, call.args.price_history)
        /\ ~call.result.is_legitimate =>
               /\ call.result.confidence = "high"
               /\ call.result.real_discount_pct # None
               /\ call.result.inflated_by_pct # None
\* a list price above 1.1 x an old maximum only: $60 listed, $50 charged 91 days
\* ago, $40 yesterday
C12_Witness ==
    /\ call.op = "is_true_discount"
    /\ call.args.list_price = 6000000
    /\ call.args.price_history = <<[price |-> Some(5000000), age |-> 91],
                                   [price |-> Some(4000000), age |-> 1]>>
    /\ ~call.result.is_legitimate

\* C13: for every current price >= 0, every history of (price, date) pairs with
\* prices >= 0 and every lookback window, calculate_price_performance_score
\* returns an integer in [0,100], also when the current price lies below the
\* window minimum or above the window maximum.
C13_PricePerformanceInRange ==
    call.op = "calculate_price_performance_score" =>
        call.raised = "none" /\ call.result \in 0..100
\* $60 now, $40 and $50 inside the window: 100 points below the maximum's 0
C13_Witness ==
    /\ call.op = "calculate_price_performance_score"
    /\ call.args.current_price = 6000000
    /\ call.args.price_history = <<[price |-> Some(4000000), age |-> 1],
                                   [price |-> Some(5000000), age |-> 1]>>
    /\ call.result = 0

\* C17: calculate_price_performance_score returns the neutral score 50 for
\* every current price when the history is empty or when no history entry
\* falls inside the lookback window.
NothingInWindow(h, days) == \A i \in 1..Len(h) : h[i].age > days
C17_NeutralWithoutData ==
    (call.op = "calculate_price_performance_score"
     /\ NothingInWindow(call.args.price_history, call.args.days)) => call.result = 50
\* two priced entries, both older than the window
C17_Witness ==
    /\ call.op = "calculate_price_performance_score"
    /\ call.args.current_price = 3800000
    /\ call.args.days = 90
    /\ call.args.price_history = <<[price |-> Some(4000000), age |-> 91],
                                   [price |-> Some(5000000), age |-> 91]>>
    /\ call.result = 50

\* C18: is_true_discount with an empty price history returns is_legitimate =
\* true with confidence 'low' for every current price and list price, and
\* carries neither real_discount_pct nor inflated_by_pct.
C18_EmptyHistoryFailsOpen ==
    (call.op = "is_true_discount" /\ call.args.price_history = <<>>) =>
        /\ call.result.is_legitimate
        /\ call.result.confidence = "low"
        /\ call.result.real_discount_pct = None
        /\ call.result.inflated_by_pct = None
C18_Witness ==
    /\ call.op = "is_true_discount"
    /\ call.args.price_history = <<>>
    /\ call.args.list_price > call.args.current_price
    /\ call.args.current_price > 0
    /\ call.result.is_legitimate

\* C14: for every valid input (unit price and category median absent or >= 0,
\* discount_pct absent or in [0,100], rating absent or in [0,5], review_count
\* >= 0, is_prime either value) calculate_deal_quality_score returns an integer
\* in [0,100], the 105-point maximum of the component sum being capped at 100.
C14_DealQualityInRange ==
    call.op = "calculate_deal_quality_score" =>
        call.raised = "none" /\ call.result \in 0..100

\* C15: calculate_unit_price returns absent, without raising, whenever the
\* quantity is 0 or absent, the unit is absent or in none of the conversion
\* tables, or normalization yields 0; a unit price is never computed from a
\* zero or absent normalized quantity, and every returned unit price is
\* non-negative when the price is non-negative.
UnknownUnit(unit) == unit = <<>> \/ ExpectedUnitType(Strip(Lower(unit))) = "UNKNOWN"
C15_AbsentWithoutQuantityOrUnit ==
    call.op = "UnitCalculator.calculate_unit_price" =>
        /\ call.raised = "none"
        /\ (Falsy(call.args.quantity) \/ UnknownUnit(call.args.unit))
               => call.result = None
        /\ call.result # None =>
               /\ ~Falsy(normalize_to_standard_unit(call.args.quantity,
                                                    call.args.unit).quantity)
               /\ Val(call.args.price) >= 0 => Val(call.result) >= 0
\* a price over a quantity in a unit no table knows
C15_Witness ==
    /\ call.op = "UnitCalculator.calculate_unit_price"
    /\ call.args.price = Some(1999000)
    /\ call.args.quantity = Some(3200000)
    /\ call.args.unit = <<"f", "l", "o", "z">>
    /\ call.result = None

\* C16: normalize_to_standard_unit, matching the unit token case-insensitively
\* and whitespace-trimmed, returns quantity x the table factor with a canonical
\* unit: 1 lb gives 16.0 oz, 5 lb gives 80 oz, 1 kg gives 35.274 oz, 1 L gives
\* 33.814 fl oz, a count unit gives the quantity unchanged with unit 'count';
\* every present result has its unit in {oz, fl oz, count} and a quantity > 0.
Normalizes(quantity, units, normalized, standard_unit) ==
    (call.args.quantity = Some(quantity) /\ call.args.unit \in units)
        => call.result = [quantity |-> Some(normalized), unit |-> standard_unit]
C16_NormalizedByTableFactor ==
    call.op = "normalize_to_standard_unit" =>
        /\ Normalizes(100000, {<<"l", "b">>, <<" ", "L", "B", " ">>}, 1600000, <<"o", "z">>)
        /\ Normalizes(500000, {<<"l", "b">>, <<" ", "L", "B", " ">>}, 8000000, <<"o", "z">>)
        /\ Normalizes(100000, {<<"K", "g">>}, 3527400, <<"o", "z">>)
        /\ Normalizes(100000, {<<"L">>}, 3381400, <<"f", "l", " ", "o", "z">>)
        /\ \A q \in {100000, 500000, 3200000} :
               Normalizes(q, {<<"C", "o", "u", "n", "t">>, <<" ", "c", "t">>}, q, <<"c", "o", "u", "n", "t">>)
        /\ call.result.quantity # None =>
               /\ call.result.unit \in {<<"o", "z">>, <<"f", "l", " ", "o", "z">>, <<"c", "o", "u", "n", "t">>}
               /\ Val(call.result.quantity) > 0
\* five pounds, in capitals and padded
C16_Witness ==
    /\ call.op = "normalize_to_standard_unit"
    /\ call.args = [quantity |-> Some(500000), unit |-> <<" ", "L", "B", " ">>]
    /\ call.result = [quantity |-> Some(8000000), unit |-> <<"o", "z">>]

\* C19: get_price_statistics reports trend 'down' exactly when change_pct < -5,
\* 'up' exactly when change_pct > 5 and 'stable' otherwise (a change of exactly
\* -5 or +5 is stable), where change_pct = (current price - oldest in-window
\* price) / oldest in-window price x 100.
ExpectedTrend(old_price, current_price) ==
    IF (current_price - old_price) * 100 < -5 * old_price THEN "down"
    ELSE IF (current_price - old_price) * 100 > 5 * old_price THEN "up"
    ELSE "stable"
C19_TrendByChangeOfFivePercent ==
    (call.op = "get_price_statistics"
     /\ InWindow(call.args.rows, call.args.now, call.args.days) # {}
     /\ call.args.rows[OldestInWindow(call.args.rows, call.args.now,
                                      call.args.days)].price > 0) =>
        call.result.trend
            = ExpectedTrend(call.args.rows[OldestInWindow(call.args.rows, call.args.now,
                                                          call.args.days)].price,
                            call.args.rows[Len(call.args.rows)].price)

\* C20: get_price_drop_alerts returns exactly the products that have at least
\* two points inside the last `hours` window, a positive earliest in-window
\* price, and a drop from the earliest to the latest in-window price of at
\* least min_drop_percentage; points outside the window are ignored, and the
\* returned list is ordered by drop percentage, highest first.
PointsInWindow(rows) ==
    {i \in 1..Len(rows) : rows[i].recorded_at >= call.args.now - call.args.hours}
EarliestInWindow(rows) ==
    rows[CHOOSE i \in PointsInWindow(rows) : \A j \in PointsInWindow(rows) : i <= j]
LatestInWindow(rows) ==
    rows[CHOOSE i \in PointsInWindow(rows) : \A j \in PointsInWindow(rows) : i >= j]
HasDropped(rows) ==
    /\ Cardinality(PointsInWindow(rows)) >= 2
    /\ EarliestInWindow(rows).price > 0
    /\ (EarliestInWindow(rows).price - LatestInWindow(rows).price) * 100
           >= call.args.min_drop_percentage * EarliestInWindow(rows).price
C20_ExactlyTheDroppedProducts ==
    call.op = "get_price_drop_alerts" =>
        /\ \A k \in 1..Len(call.args.products) :
               HasDropped(call.args.products[k])
                   <=> \E i \in 1..Len(call.result) : call.result[i].product_id = k
        /\ \A i \in 1..Len(call.result), j \in 1..Len(call.result) :
               i < j => call.result[i].drop_percentage >= call.result[j].drop_percentage

\* C21: for identical rating, review count, search position and unit prices,
\* calculate_hidden_gem_score of a non-sponsored product is never lower than
\* that of a sponsored one, and is strictly higher whenever the sponsored
\* score is below 100; the difference is at most the bonus (20 when
\* sponsored_frequency < 0.1, 10 otherwise).
NonSponsoredScore(args) ==
    calculate_hidden_gem_score(args.rating, args.review_count, args.search_position,
                               args.unit_price, args.category_median_unit_price,
                               FALSE, args.sponsored_frequency)
C21_NonSponsoredScoresHigher ==
    (call.op = "calculate_hidden_gem_score" /\ call.raised = "none"
     /\ call.args.is_sponsored) =>
        /\ NonSponsoredScore(call.args) >= call.result
        /\ call.result < 100 => NonSponsoredScore(call.args) > call.result
        /\ NonSponsoredScore(call.args) - call.result
               <= (IF call.args.sponsored_frequency < 10 THEN 20 ELSE 10)
\* a sponsored product rated 4.5 at position 35 with 100 reviews
C21_Witness ==
    /\ call.op = "calculate_hidden_gem_score"
    /\ call.raised = "none"
    /\ call.args.is_sponsored
    /\ call.args.rating = Some(450)
    /\ call.args.search_position = 35
    /\ call.args.review_count = 100
    /\ call.result < 100
    /\ NonSponsoredScore(call.args) > call.result

\* C22: extract_unit_from_title returns the result of the first pattern, in the
\* list order of PATTERNS, that matches anywhere in the lower-cased title:
\* later patterns are consulted only when no earlier pattern matches, and
\* absent (None, None) is returned only when no pattern matches.
MatchingPatterns(title) ==
    {k \in 1..Len(PATTERNS) : title # <<>> /\ Search(Lower(title), PATTERNS[k]).ok}
FirstMatchingPattern(title) ==
    CHOOSE k \in MatchingPatterns(title) : \A j \in MatchingPatterns(title) : k <= j
C22_FirstMatchingPatternDecides ==
    call.op = "extract_unit_from_title" =>
        /\ call.result = NoUnit <=> MatchingPatterns(call.args.title) = {}
        /\ MatchingPatterns(call.args.title) # {} =>
               LET groups == Search(Lower(call.args.title),
                                    PATTERNS[FirstMatchingPattern(call.args.title)]).groups
               IN  Len(groups) = 2 =>
                       call.result = [quantity |-> Some(ParseFloat(groups[1])),
                                      unit |-> Strip(groups[2])]

\* C23: for a fixed quantity and unit, calculate_unit_price is non-decreasing
\* in price over all prices for which it returns a value: p1 <= p2 implies
\* unit_price(p1) <= unit_price(p2) after rounding to 4 decimals, and a call
\* with identical inputs returns the identical result.
UnitPriceAt(price) ==
    UnitCalculator_calculate_unit_price(price, call.args.quantity, call.args.unit)
C23_UnitPriceMonotoneInPrice ==
    (call.op = "UnitCalculator.calculate_unit_price" /\ call.result # None) =>
        /\ UnitPriceAt(call.args.price) = call.result
        /\ \A p2 \in Prices :
               (UnitPriceAt(p2) # None /\ Val(call.args.price) <= Val(p2))
                   => Val(call.result) <= Val(UnitPriceAt(p2))
\* $1.00025 for 10 pieces: the same 0.1000 as for $1.00035, less than for $5
C23_Witness ==
    /\ call.op = "UnitCalculator.calculate_unit_price"
    /\ call.args = [price |-> Some(100025), quantity |-> Some(1000000), unit |-> <<"c", "o", "u", "n", "t">>]
    /\ call.result = UnitPriceAt(Some(100035))
    /\ Val(call.result) < Val(UnitPriceAt(Some(500000)))

\* C24: the buried-but-good bonus of calculate_hidden_gem_score is
\* min(30, (search_position - 20) * 2) when search_position > 20 and 0 when
\* search_position <= 20, whatever the review_count; it never lowers the
\* score. The score at position 20, where the bonus is 0, is the score
\* without the bonus.
ScoreAtPosition20(args) ==
    calculate_hidden_gem_score(args.rating, args.review_count, 20, args.unit_price,
                               args.category_median_unit_price, args.is_sponsored,
                               args.sponsored_frequency)
BuriedBonus(search_position) ==
    IF search_position > 20 THEN Min(30, (search_position - 20) * 2) ELSE 0
C24_BuriedBonusByPosition ==
    (call.op = "calculate_hidden_gem_score" /\ call.raised = "none") =>
        call.result = Min(100, ScoreAtPosition20(call.args)
                               + BuriedBonus(call.args.search_position))

\* C25: when the prices inside the window are not all equal,
\* calculate_price_performance_score gives 100 to a current price equal to the
\* window's minimum and 0 to a current price equal to its maximum, also when
\* the maximum is within 2% of the minimum; when all prices inside the window
\* are equal it gives 100.
WindowEntries(h, days) == {i \in 1..Len(h) : h[i].age <= days}
WindowPriced(h, days) ==
    WindowEntries(h, days) # {} /\ \A i \in WindowEntries(h, days) : h[i].price # None
WindowPrices(h, days) == {Val(h[i].price) : i \in WindowEntries(h, days)}
WindowMin(h, days) == CHOOSE p \in WindowPrices(h, days) : \A q \in WindowPrices(h, days) : p <= q
WindowMax(h, days) == CHOOSE p \in WindowPrices(h, days) : \A q \in WindowPrices(h, days) : p >= q
C25_HundredAtMinimumZeroAtMaximum ==
    (call.op = "calculate_price_performance_score"
     /\ WindowPriced(call.args.price_history, call.args.days)) =>
        LET lowest == WindowMin(call.args.price_history, call.args.days)
            highest == WindowMax(call.args.price_history, call.args.days)
        IN  /\ lowest = highest => call.result = 100
            /\ (lowest < highest /\ call.args.current_price = lowest) => call.result = 100
            /\ (lowest < highest /\ call.args.current_price = highest) => call.result = 0

\* C26: the real_discount_pct is_true_discount returns has one sign in both
\* branches: positive exactly when the current price is below the reference
\* price (the historical maximum when the list price is inflated, the
\* historical average otherwise) and negative exactly when it is above.
HistoricalPrices(h) == [i \in 1..Len(h) |-> Val(h[i].price)]
BelowReference(args, result) ==
    IF result.inflated_by_pct # None
    THEN args.current_price < MaxPrice(HistoricalPrices(args.price_history))
    ELSE args.current_price * Len(args.price_history)
             < SumPrices(HistoricalPrices(args.price_history), Len(args.price_history))
AboveReference(args, result) ==
    IF result.inflated_by_pct # None
    THEN args.current_price > MaxPrice(HistoricalPrices(args.price_history))
    ELSE args.current_price * Len(args.price_history)
             > SumPrices(HistoricalPrices(args.price_history), Len(args.price_history))
C26_OneSignConvention ==
    (call.op = "is_true_discount" /\ call.raised = "none"
     /\ call.result.real_discount_pct # None) =>
        /\ Val(call.result.real_discount_pct) > 0 <=> BelowReference(call.args, call.result)
        /\ Val(call.result.real_discount_pct) < 0 <=> AboveReference(call.args, call.result)

\* C27: with the other arguments fixed and a positive category median,
\* calculate_deal_quality_score never gives a cheaper unit price a lower score
\* than a dearer one, over all unit prices >= 0, the unit price 0.0000 included.
DealQualityAt(unit_price, args) == calculate_deal_quality_score(unit_price, args.category_median_unit_price, args.discount_pct, args.rating, args.review_count, args.is_prime)
C27_DealQualityMonotoneInUnitPrice ==
    (call.op = "calculate_deal_quality_score" /\ call.raised = "none"
     /\ call.args.unit_price # None
     /\ call.args.category_median_unit_price # None
     /\ Val(call.args.category_median_unit_price) > 0) =>
        \A dearer \in DealUnitPrices \ {None} :
            (/\ Val(call.args.unit_price) <= Val(dearer)
             /\ deal_quality_exception(dearer, call.args.category_median_unit_price,
                                       call.args.median_type) = "none")
                => call.result >= DealQualityAt(dearer, call.args)

\* C28 (under SpecSeq): after record_price calls made one after the other,
\* every two consecutive points of the history differ in price by more than
\* $0.01 or are at least 24 hours apart, and the history only grows: a step
\* leaves it unchanged or appends one point, the stored points untouched.
FarApart(earlier, later) ==
    \/ Abs(earlier.price - later.price) > Cent
    \/ later.recorded_at - earlier.recorded_at >= 24
OnlyGrows(before, after) ==
    \/ after = before
    \/ Len(after) = Len(before) + 1 /\ SubSeq(after, 1, Len(before)) = before
C28_ConsecutivePointsFarApart ==
    /\ [](\A i \in 1..(Len(history) - 1) : FarApart(history[i], history[i + 1]))
    /\ [][OnlyGrows(history, history')]_vars

\* C29 (under SpecSeq): once a record_price call has returned, the price of
\* the latest stored point differs from the price that call observed by at
\* most $0.01, whether the call recorded or skipped: skipped small changes do
\* not add up to a larger unrecorded drift.
LatestStoredPrice == history[Val(LatestRow(history))].price
C29_LatestWithinCentOfObserved ==
    (pc["w1"] = "done" /\ history # <<>>) =>
        Abs(LatestStoredPrice - frame["w1"].price) <= Cent
\* a call that observed a price exactly one cent from the latest stored point
\* has skipped it: the largest difference a skip leaves
C29_Witness ==
    /\ pc["w1"] = "done"
    /\ history # <<>>
    /\ ~frame["w1"].should_record
    /\ ret["w1"] = LatestRow(history)
    /\ Abs(LatestStoredPrice - frame["w1"].price) = Cent

\* C30: every unit token extract_unit_from_title can return is accepted by
\* normalize_to_standard_unit: when extraction returns a quantity > 0 with a
\* unit, normalizing the pair gives a present result, for every spelling the
\* patterns accept
C30_ExtractedUnitNormalizes ==
    (call.op = "extract_unit_from_title" /\ call.result.quantity # None
     /\ Val(call.result.quantity) > 0) =>
        normalize_to_standard_unit(call.result.quantity, call.result.unit).quantity # None
====
